---------------------------- MODULE Spec2Model ----------------------------
(***************************************************************************)
(* A model of main.py of YouTube_Leaf: a daily job that searches a video   *)
(* platform for keywords, filters and merges the results, and writes them  *)
(* to a new dated worksheet.  The module holds these state machines, over  *)
(* disjoint groups of variables:                                           *)
(*   DurSpec    iso8601_to_duration             (pure function)            *)
(*   PageSpec   get_youtube_data: pagination loop and metadata batches     *)
(*   FilterSpec get_youtube_data: publish-time window check                *)
(*   MergeSpec  merge_and_deduplicate, the sort, the exported rows         *)
(*   Spec       main + export_to_google_sheet, two concurrent runs         *)
(*   SerialSpec the same runs, invoked one after the other                 *)
(* Strings are sequences of one-character strings, so that matching,       *)
(* formatting and substring search are computed, not assumed.              *)
(***************************************************************************)
EXTENDS Integers, Sequences, FiniteSets, TLC

VARIABLES
    dIn, dOut, dPc,           \* iso8601_to_duration: argument, result, position
    keywords,                 \* main: config['keywords']
    video_data_list,          \* main: one result list per keyword fetched so far
    merged_video_data,        \* main: the merged, then sorted, records
    sheetRows,                \* the rows export_to_google_sheet appended
    mPc,                      \* main: position in the merge/sort/export tail
    max_total_results,        \* get_youtube_data: the cap on collected ids
    nIds,                     \* get_youtube_data: len(video_ids)
    next_page_token,          \* get_youtube_data: "none" or "tok"
    reqPageSize,              \* maxResults of the search request last issued
    searchRequests,           \* search.list requests issued so far
    batchStart,               \* get_youtube_data: i of the metadata loop
    batches,                  \* the slices [lo, hi) sent to videos.list so far
    emptyPages,               \* responses so far with a token and no item
    overshot,                 \* some response held more items than requested
    pPc,                      \* get_youtube_data: position
    start_dt, end_dt,         \* get_youtube_data: the window, local hours
    publishedAfter,           \* the search request's lower bound, UTC hours
    publishedBefore,          \* the search request's upper bound, UTC hours
    items,                    \* publishedAt (UTC hours) of the items received
    video_data_kept,          \* get_youtube_data: video_data, as publishedAt values
    fPc,                      \* get_youtube_data: position in the item loop
    sheets,                   \* the destination spreadsheet: its worksheets in order
    numKeywords,              \* len(keywords) of the configuration file
    pc,                       \* per run: position in main / export_to_google_sheet
    sheet_name,               \* per run: main's sheet_name (today's date key)
    existing_sheets,          \* per run: main's existing_sheets (titles read)
    kwDone,                   \* per run: keywords fetched so far
    searchCalls,              \* per run: search.list requests issued
    videosCalls,              \* per run: videos.list requests issued
    sheetCalls,               \* per run: add_worksheet/append_row/append_rows issued
    worksheet,                \* per run: place in sheets of the worksheet created, or 0
    err                       \* per run: "none", "api" (a call raised), "conflict"

durVars == <<dIn, dOut, dPc>>
mergeVars == <<keywords, video_data_list, merged_video_data, sheetRows, mPc>>
pageVars == <<max_total_results, nIds, next_page_token, reqPageSize, searchRequests,
              batchStart, batches, emptyPages, overshot, pPc>>
filterVars == <<start_dt, end_dt, publishedAfter, publishedBefore, items,
                video_data_kept, fPc>>
runVars == <<sheets, numKeywords, pc, sheet_name, existing_sheets, kwDone,
             searchCalls, videosCalls, sheetCalls, worksheet, err>>
vars == <<durVars, mergeVars, pageVars, filterVars, runVars>>

(***************************************************************************)
(* Each specification runs one of the state machines and leaves the        *)
(* variables of the others at rest.                                        *)
(***************************************************************************)
DurIdle == dIn = <<>> /\ dOut = <<>> /\ dPc = "idle"

MergeIdle ==
    /\ keywords = <<>> /\ video_data_list = <<>> /\ merged_video_data = <<>>
    /\ sheetRows = <<>> /\ mPc = "idle"

PageIdle ==
    /\ max_total_results = 0 /\ nIds = 0 /\ next_page_token = "none"
    /\ reqPageSize = 0 /\ searchRequests = 0 /\ batchStart = 0 /\ batches = <<>>
    /\ emptyPages = 0 /\ overshot = FALSE /\ pPc = "idle"

FilterIdle ==
    /\ start_dt = 0 /\ end_dt = 0 /\ publishedAfter = 0 /\ publishedBefore = 0
    /\ items = <<>> /\ video_data_kept = <<>> /\ fPc = "idle"

Runs == {1, 2}

RunIdle ==
    /\ sheets = <<>> /\ numKeywords = 0
    /\ pc = [r \in Runs |-> "off"]
    /\ sheet_name = [r \in Runs |-> ""]
    /\ existing_sheets = [r \in Runs |-> {}]
    /\ kwDone = [r \in Runs |-> 0]
    /\ searchCalls = [r \in Runs |-> 0]
    /\ videosCalls = [r \in Runs |-> 0]
    /\ sheetCalls = [r \in Runs |-> 0]
    /\ worksheet = [r \in Runs |-> 0]
    /\ err = [r \in Runs |-> "none"]

(***************************************************************************)
(* Bounds of the model.                                                    *)
(***************************************************************************)
MaxDurLen == 3        \* longest free-form duration string tried
MaxVideos == 2        \* most records one keyword's search returns
MaxEmptyPages == 1    \* most responses with a token and no item in one call
MaxOvershoot == 1     \* most items a response holds beyond those requested
MaxItems == 3         \* most items the metadata responses of one call hold
MaxKeywords == 2      \* most keywords in the configuration file

(***************************************************************************)
(* Characters and decimal numbers.                                         *)
(***************************************************************************)
Digits == {"0", "1", "2", "3", "4", "5", "6", "7", "8", "9"}

DigitVal(c) ==
    CASE c = "0" -> 0 [] c = "1" -> 1 [] c = "2" -> 2 [] c = "3" -> 3
      [] c = "4" -> 4 [] c = "5" -> 5 [] c = "6" -> 6 [] c = "7" -> 7
      [] c = "8" -> 8 [] c = "9" -> 9

DigitChar(d) ==
    CASE d = 0 -> "0" [] d = 1 -> "1" [] d = 2 -> "2" [] d = 3 -> "3"
      [] d = 4 -> "4" [] d = 5 -> "5" [] d = 6 -> "6" [] d = 7 -> "7"
      [] d = 8 -> "8" [] d = 9 -> "9"

\* int(text) for a string of decimal digits
RECURSIVE ToInt(_)
ToInt(ds) ==
    IF ds = <<>> THEN 0
    ELSE 10 * ToInt(SubSeq(ds, 1, Len(ds) - 1)) + DigitVal(ds[Len(ds)])

\* "%d" % n for n >= 0
RECURSIVE DecStr(_)
DecStr(n) ==
    IF n < 10 THEN <<DigitChar(n)>>
    ELSE DecStr(n \div 10) \o <<DigitChar(n % 10)>>

\* "%02d" % n for n >= 0
Pad2(n) == IF n < 10 THEN <<"0", DigitChar(n)>> ELSE DecStr(n)

(***************************************************************************)
(* iso8601_to_duration.  The pattern PT(?:(\d+)H)?(?:(\d+)M)?(?:(\d+)S)?   *)
(* is applied with re.match: anchored at the start, not at the end.        *)
(***************************************************************************)
\* the position after the longest run of digits of s starting at pos
RECURSIVE DigitRunEnd(_, _)
DigitRunEnd(s, pos) ==
    IF pos <= Len(s) /\ s[pos] \in Digits THEN DigitRunEnd(s, pos + 1) ELSE pos

\* one optional group (?:(\d+)U)? tried at pos: \d+ is greedy and U is not a
\* digit, so the group matches exactly when the whole run is followed by U
MatchGroup(s, pos, unit) ==
    LET e == DigitRunEnd(s, pos)
    IN  IF e > pos /\ e <= Len(s) /\ s[e] = unit
        THEN [ok |-> TRUE, val |-> ToInt(SubSeq(s, pos, e - 1)), next |-> e + 1]
        ELSE [ok |-> FALSE, val |-> 0, next |-> pos]

\* the three groups in order, and the position where the match ends
MatchPeriod(s) ==
    LET h == MatchGroup(s, 3, "H")
        m == MatchGroup(s, h.next, "M")
        sec == MatchGroup(s, m.next, "S")
    IN  [ok |-> Len(s) >= 2 /\ s[1] = "P" /\ s[2] = "T",
         hours |-> h.val, minutes |-> m.val, seconds |-> sec.val,
         end |-> sec.next]

\* str(timedelta(seconds=total)): "%d:%02d:%02d", after "N day(s), " if any
TimedeltaStr(total) ==
    LET days == total \div 86400
        secs == total % 86400
        mm0 == secs \div 60
        ss == secs % 60
        hh == mm0 \div 60
        mm == mm0 % 60
        clock == DecStr(hh) \o <<":">> \o Pad2(mm) \o <<":">> \o Pad2(ss)
        plural == IF days # 1 THEN <<"s">> ELSE <<>>
    IN  IF days # 0
        THEN DecStr(days) \o <<" ", "d", "a", "y">> \o plural \o <<",", " ">> \o clock
        ELSE clock

ZeroClock == <<"0", "0", ":", "0", "0", ":", "0", "0">>

iso8601_to_duration(s) ==
    LET m == MatchPeriod(s)
    IN  IF ~m.ok THEN ZeroClock
        ELSE TimedeltaStr(m.hours * 3600 + m.minutes * 60 + m.seconds)

(***************************************************************************)
(* The arguments tried: every string of at most MaxDurLen characters over  *)
(* a small alphabet, every PT[nH][nM][nS] over a few numbers, and each of  *)
(* those followed by a stray character.                                    *)
(***************************************************************************)
DurAlphabet == {"P", "T", "H", "M", "S", "D", "1", "5"}

DurNums == {<<"0">>, <<"3">>, <<"0", "2">>, <<"4", "5">>, <<"2", "5">>, <<"9", "0">>}

DurPart(unit) == {<<>>} \cup {n \o <<unit>> : n \in DurNums}

DurWellFormed ==
    {<<"P", "T">> \o h \o m \o s :
        h \in DurPart("H"), m \in DurPart("M"), s \in DurPart("S")}

DurFree == UNION {[1..n -> DurAlphabet] : n \in 0..MaxDurLen}

DurInputs == DurFree \cup DurWellFormed \cup {w \o <<"X">> : w \in DurWellFormed}

DurInit == dIn \in DurInputs /\ dOut = <<>> /\ dPc = "call"
    /\ MergeIdle /\ PageIdle /\ FilterIdle /\ RunIdle

DurCall ==
    /\ dPc = "call"
    /\ dOut' = iso8601_to_duration(dIn)
    /\ dPc' = "ret"
    /\ UNCHANGED <<dIn, mergeVars, pageVars, filterVars, runVars>>

DurNext == DurCall

DurSpec == DurInit /\ [][DurNext]_vars

\* the result the HH:MM:SS reading gives: two digits for every component
C8_Claimed(s) ==
    LET m == MatchPeriod(s)
    IN  IF m.ok /\ m.end = Len(s) + 1
        THEN Pad2(m.hours) \o <<":">> \o Pad2(m.minutes) \o <<":">> \o Pad2(m.seconds)
        ELSE ZeroClock

(***************************************************************************)
(* C8: iso8601_to_duration returns HH:MM:SS with two-digit components for  *)
(* every string that is wholly of the form PT[nH][nM][nS] (components      *)
(* below 100), and 00:00:00 for every other string.                        *)
(***************************************************************************)
C8_ZeroPaddedClock ==
    dPc = "ret" =>
        LET m == MatchPeriod(dIn)
        IN  (m.hours < 100 /\ m.minutes < 100 /\ m.seconds < 100)
                => dOut = C8_Claimed(dIn)

(***************************************************************************)
(* merge_and_deduplicate, the sort of main, and the rows of                *)
(* export_to_google_sheet.  A record carries the fields these read: the    *)
(* other fields of a record travel with it unchanged.                      *)
(***************************************************************************)
\* k in title: k occurs in title as a contiguous run of characters
Contains(k, title) ==
    \E i \in 0..(Len(title) - Len(k)) : SubSeq(title, i + 1, i + Len(k)) = k

\* any(k in video['title'] for k in keywords)
TitleMatches(video, keys) ==
    \E n \in 1..Len(keys) : Contains(keys[n], video.title)

\* merged[video['video_id']] = video on a dict kept in insertion order: a key
\* already present keeps its place and takes the new value
DictPut(merged, video) ==
    IF \E i \in 1..Len(merged) : merged[i].video_id = video.video_id
    THEN [i \in 1..Len(merged) |->
            IF merged[i].video_id = video.video_id THEN video ELSE merged[i]]
    ELSE Append(merged, video)

\* the inner loop over one keyword's records
RECURSIVE MergeOne(_, _, _)
MergeOne(merged, video_data, keys) ==
    IF video_data = <<>> THEN merged
    ELSE MergeOne(IF TitleMatches(Head(video_data), keys)
                  THEN DictPut(merged, Head(video_data)) ELSE merged,
                  Tail(video_data), keys)

\* the outer loop over the result lists
RECURSIVE MergeAll(_, _, _)
MergeAll(merged, lists, keys) ==
    IF lists = <<>> THEN merged
    ELSE MergeAll(MergeOne(merged, Head(lists), keys), Tail(lists), keys)

\* a first-write-wins dictionary: an id keeps the first matching record seen
MergeKeepFirst(lists, keys) ==
    LET RECURSIVE One(_, _)
        One(merged, video_data) ==
            IF video_data = <<>> THEN merged
            ELSE One(IF /\ TitleMatches(Head(video_data), keys)
                        /\ \A i \in 1..Len(merged) :
                              merged[i].video_id # Head(video_data).video_id
                     THEN Append(merged, Head(video_data)) ELSE merged,
                     Tail(video_data))
        RECURSIVE All(_, _)
        All(merged, ls) ==
            IF ls = <<>> THEN merged ELSE All(One(merged, Head(ls)), Tail(ls))
    IN  All(<<>>, lists)

merge_and_deduplicate(lists, keys) == MergeAll(<<>>, lists, keys)

\* list.sort(key=view_count, reverse=True): a stable sort, so records of equal
\* view_count keep their order; computed by inserting from the left
RECURSIVE InsertDesc(_, _)
InsertDesc(sorted, video) ==
    IF sorted = <<>> THEN <<video>>
    ELSE IF Head(sorted).view_count >= video.view_count
         THEN <<Head(sorted)>> \o InsertDesc(Tail(sorted), video)
         ELSE <<video>> \o sorted

RECURSIVE SortFrom(_, _)
SortFrom(sorted, rest) ==
    IF rest = <<>> THEN sorted
    ELSE SortFrom(InsertDesc(sorted, Head(rest)), Tail(rest))

\* a sort that puts a record before the records of equal view_count
SortUnstable(videos) ==
    LET RECURSIVE Ins(_, _)
        Ins(sorted, video) ==
            IF sorted = <<>> THEN <<video>>
            ELSE IF Head(sorted).view_count > video.view_count
                 THEN <<Head(sorted)>> \o Ins(Tail(sorted), video)
                 ELSE <<video>> \o sorted
        RECURSIVE From(_, _)
        From(sorted, rest) ==
            IF rest = <<>> THEN sorted ELSE From(Ins(sorted, Head(rest)), Tail(rest))
    IN  From(<<>>, videos)

SortByViewCountDesc(videos) == SortFrom(<<>>, videos)

WatchUrlPrefix == <<"w", "a", "t", "c", "h", "?", "v", "=">>

\* one data row: the columns that identify the record and order the sheet
Row(video) ==
    [title |-> video.title, video_id |-> video.video_id,
     url |-> WatchUrlPrefix \o DecStr(video.video_id),
     view_count |-> video.view_count]

HeaderRow == "headers"

ExportRows(video_data) ==
    <<HeaderRow>> \o [i \in 1..Len(video_data) |-> Row(video_data[i])]

\* The records a search may return: three ids, the same id with a changed
\* view count or title, titles that match a keyword only in another case.
TitleAClip == <<"A", " ", "c", "l", "i", "p">>
TitleOther == <<"o", "t", "h", "e", "r">>
TitleLowerB == <<"a", " ", "B">>
TitleB == <<"B">>

Video(id, title, views) == [video_id |-> id, title |-> title, view_count |-> views]

VideoUniverse ==
    {Video(1, TitleAClip, 50), Video(1, TitleAClip, 999), Video(1, TitleOther, 50),
     Video(2, TitleOther, 999), Video(2, TitleLowerB, 50), Video(3, TitleB, 50)}

VideoLists == UNION {[1..n -> VideoUniverse] : n \in 0..MaxVideos}

KeywordLists == {<<<<"A">>, <<"B">>>>, <<<<"B">>>>, <<>>}

MergeInit ==
    /\ keywords \in KeywordLists
    /\ video_data_list \in [1..Len(keywords) -> VideoLists]
    /\ merged_video_data = <<>>
    /\ sheetRows = <<>>
    /\ mPc = "fetched"
    /\ DurIdle /\ PageIdle /\ FilterIdle /\ RunIdle

\* main: merged_video_data = merge_and_deduplicate(video_data_list, keywords)
Merge ==
    /\ mPc = "fetched"
    /\ merged_video_data' = merge_and_deduplicate(video_data_list, keywords)
    /\ mPc' = "merged"
    /\ UNCHANGED <<keywords, video_data_list, sheetRows, durVars, pageVars,
                   filterVars, runVars>>

\* main: merged_video_data.sort(key=view_count, reverse=True)
Sort ==
    /\ mPc = "merged"
    /\ merged_video_data' = SortByViewCountDesc(merged_video_data)
    /\ mPc' = "sorted"
    /\ UNCHANGED <<keywords, video_data_list, sheetRows, durVars, pageVars,
                   filterVars, runVars>>

\* export_to_google_sheet: append_row(headers), append_rows(rows)
Export ==
    /\ mPc = "sorted"
    /\ sheetRows' = ExportRows(merged_video_data)
    /\ mPc' = "exported"
    /\ UNCHANGED <<keywords, video_data_list, merged_video_data, durVars,
                   pageVars, filterVars, runVars>>

MergeNext == Merge \/ Sort \/ Export

MergeSpec == MergeInit /\ [][MergeNext]_vars

(***************************************************************************)
(* The records of all result lists in the order the merge visits them.     *)
(***************************************************************************)
RECURSIVE Flatten(_)
Flatten(lists) ==
    IF lists = <<>> THEN <<>> ELSE Head(lists) \o Flatten(Tail(lists))

\* the places of the records of Flatten that have this id and a matching title
MatchingAt(id) ==
    LET flat == Flatten(video_data_list)
    IN  {n \in 1..Len(flat) :
            flat[n].video_id = id /\ TitleMatches(flat[n], keywords)}

Least(S) == CHOOSE n \in S : \A m \in S : n <= m

Greatest(S) == CHOOSE n \in S : \A m \in S : n >= m

(***************************************************************************)
(* C6: the output of merge_and_deduplicate holds exactly one record for    *)
(* every videoId that occurs with a title containing a keyword (as a       *)
(* case-sensitive substring), no record whose title contains no keyword,   *)
(* and for an id that occurs several times the last matching occurrence.   *)
(***************************************************************************)
C6_MergeKeepsLastMatching ==
    mPc = "merged" =>
        LET flat == Flatten(video_data_list)
            out == merged_video_data
        IN  /\ \A i, j \in 1..Len(out) :
                  i # j => out[i].video_id # out[j].video_id
            /\ \A n \in 1..Len(flat) :
                  TitleMatches(flat[n], keywords)
                      => \E i \in 1..Len(out) : out[i].video_id = flat[n].video_id
            /\ \A i \in 1..Len(out) :
                  /\ \E k \in 1..Len(keywords) : Contains(keywords[k], out[i].title)
                  /\ MatchingAt(out[i].video_id) # {}
                  /\ out[i] = flat[Greatest(MatchingAt(out[i].video_id))]

\* the example of the claim: A -> [{1,'A clip'},{2,'other'}], B -> [{1,'A clip'}]
C6_Witness ==
    /\ mPc = "merged"
    /\ keywords = <<<<"A">>, <<"B">>>>
    /\ video_data_list = <<<<Video(1, TitleAClip, 50), Video(2, TitleOther, 999)>>,
                           <<Video(1, TitleAClip, 50)>>>>
    /\ merged_video_data = <<Video(1, TitleAClip, 50)>>

(***************************************************************************)
(* C7: the data rows appended after the header are the records handed to   *)
(* the exporter, in order; their viewCount never increases down the sheet, *)
(* and rows of equal viewCount stand in the order in which the aggregator  *)
(* first inserted their videoId.                                           *)
(***************************************************************************)
C7_RowsSortedStable ==
    mPc = "exported" =>
        LET rows == Tail(sheetRows)
        IN  /\ sheetRows[1] = HeaderRow
            /\ Len(rows) = Len(merged_video_data)
            /\ Len(rows) = Cardinality({id \in 1..3 : MatchingAt(id) # {}})
            /\ \A i \in 1..Len(rows) :
                  /\ rows[i].video_id = merged_video_data[i].video_id
                  /\ rows[i].view_count = merged_video_data[i].view_count
                  /\ MatchingAt(rows[i].video_id) # {}
            /\ \A i, j \in 1..Len(rows) :
                  i < j =>
                     /\ rows[i].view_count >= rows[j].view_count
                     /\ rows[i].view_count = rows[j].view_count
                          => Least(MatchingAt(rows[i].video_id))
                                < Least(MatchingAt(rows[j].video_id))

\* three rows, two of equal viewCount, and a record the sort moved forward
C7_Witness ==
    /\ mPc = "exported"
    /\ Len(sheetRows) = 4
    /\ \E i, j \in 2..4 : i < j /\ sheetRows[i].view_count = sheetRows[j].view_count
    /\ \E i, j \in 2..4 :
          /\ i < j
          /\ Least(MatchingAt(sheetRows[i].video_id))
                > Least(MatchingAt(sheetRows[j].video_id))


(***************************************************************************)
(* get_youtube_data, the pagination loop and the metadata batches.  The    *)
(* ids are opaque, so video_ids is its length: an id is its position       *)
(* 0..nIds-1, and a batch video_ids[i:i+50] is the pair <<i, end>>.  What  *)
(* is done with the items of a metadata response follows in the next       *)
(* section.                                                                *)
(***************************************************************************)
SearchPageLimit == 50
BatchLimit == 50
DefaultMaxTotalResults == 100

Min(a, b) == IF a <= b THEN a ELSE b

\* maxResults=min(50, max_total_results - len(video_ids))
PageSizeUncapped(max, collected) == SearchPageLimit

PageSize(max, collected) == Min(SearchPageLimit, max - collected)

\* the end of the slice video_ids[i:i+50]
BatchEndShort(i, len) == Min(i + BatchLimit - 1, len)

BatchEnd(i, len) == Min(i + BatchLimit, len)

MaxResultsValues == {0, 1, 49, 50, 51, DefaultMaxTotalResults}

\* the numbers of items a response may hold: up to the number asked for, or more
ResponseSizes(asked) == 0..(asked + MaxOvershoot)

PageInit ==
    /\ max_total_results \in MaxResultsValues
    /\ nIds = 0
    /\ next_page_token = "none"
    /\ reqPageSize = 0
    /\ searchRequests = 0
    /\ batchStart = 0
    /\ batches = <<>>
    /\ emptyPages = 0
    /\ overshot = FALSE
    /\ pPc = "while"
    /\ DurIdle /\ MergeIdle /\ FilterIdle /\ RunIdle

\* while len(video_ids) < max_total_results: youtube.search().list(...)
SearchRequest ==
    /\ pPc = "while"
    /\ nIds < max_total_results
    /\ reqPageSize' = PageSize(max_total_results, nIds)
    /\ searchRequests' = searchRequests + 1
    /\ pPc' = "execute"
    /\ UNCHANGED <<max_total_results, nIds, next_page_token, batchStart, batches,
                   emptyPages, overshot, durVars, mergeVars, filterVars, runVars>>

\* the while condition is false on entry: the loop ends
LoopExit ==
    /\ pPc = "while"
    /\ ~(nIds < max_total_results)
    /\ pPc' = "for"
    /\ UNCHANGED <<max_total_results, nIds, next_page_token, reqPageSize,
                   searchRequests, batchStart, batches, emptyPages, overshot,
                   durVars, mergeVars, filterVars, runVars>>

\* .execute() returns k items and maybe a token; video_ids += ...; the break test.
\* A response with a token and no item leaves the loop where it was; at most
\* MaxEmptyPages of them are followed in one call.
SearchResponse ==
    /\ pPc = "execute"
    /\ \E k \in ResponseSizes(reqPageSize), tok \in {"none", "tok"} :
          /\ (k = 0 /\ tok = "tok") => emptyPages < MaxEmptyPages
          /\ nIds' = nIds + k
          /\ next_page_token' = tok
          /\ emptyPages' = IF k = 0 /\ tok = "tok" THEN emptyPages + 1 ELSE emptyPages
          /\ overshot' = (overshot \/ k > reqPageSize)
          /\ pPc' = IF tok = "none" \/ nIds + k >= max_total_results
                    THEN "for" ELSE "while"
    /\ UNCHANGED <<max_total_results, reqPageSize, searchRequests, batchStart,
                   batches, durVars, mergeVars, filterVars, runVars>>

\* for i in range(0, len(video_ids), 50): videos().list(id=video_ids[i:i+50])
VideosRequest ==
    /\ pPc = "for"
    /\ batchStart < nIds
    /\ batches' = Append(batches, <<batchStart, BatchEnd(batchStart, nIds)>>)
    /\ batchStart' = batchStart + BatchLimit
    /\ UNCHANGED <<max_total_results, nIds, next_page_token, reqPageSize,
                   searchRequests, emptyPages, overshot, pPc,
                   durVars, mergeVars, filterVars, runVars>>

\* the range is used up: return video_data
PageReturn ==
    /\ pPc = "for"
    /\ ~(batchStart < nIds)
    /\ pPc' = "done"
    /\ UNCHANGED <<max_total_results, nIds, next_page_token, reqPageSize,
                   searchRequests, batchStart, batches, emptyPages, overshot,
                   durVars, mergeVars, filterVars, runVars>>

PageNext == SearchRequest \/ LoopExit \/ SearchResponse \/ VideosRequest \/ PageReturn

PageSpec == PageInit /\ [][PageNext]_vars

(***************************************************************************)
(* C5: every search request asks for min(50, maxResults - collected)       *)
(* items, a number from 1 to 50; a request is issued only while fewer than *)
(* maxResults ids are collected and, after the first, only when the last   *)
(* response carried a continuation token; and while no response holds more *)
(* items than requested, the ids collected never exceed maxResults.        *)
(***************************************************************************)
C5_PageSizeAndCap ==
    /\ pPc = "execute" =>
          /\ reqPageSize = (IF max_total_results - nIds < 50
                            THEN max_total_results - nIds ELSE 50)
          /\ reqPageSize >= 1 /\ reqPageSize <= 50
          /\ nIds < max_total_results
          /\ searchRequests = 1 \/ next_page_token = "tok"
    /\ pPc \in {"for", "done"} =>
          \/ nIds >= max_total_results
          \/ next_page_token = "none"
    /\ ~overshot => nIds <= max_total_results

\* a third request, for the 30 ids still missing after two pages of 50 and 20
C5_Witness ==
    /\ pPc = "execute" /\ searchRequests = 3 /\ ~overshot
    /\ max_total_results = 100 /\ nIds = 70 /\ reqPageSize = 30

(***************************************************************************)
(* C10: provided every response with a continuation token holds at least   *)
(* one id, at most maxResults search requests are issued; the call always  *)
(* has a next step until it returns; and when it returns, the metadata     *)
(* fetch has issued ceil(collected/50) requests, each for 1 to 50 ids,     *)
(* and every collected id is in exactly one of them.                       *)
(***************************************************************************)
C10_LoopBoundedBatchesCover ==
    /\ emptyPages = 0 => searchRequests <= max_total_results
    /\ pPc \in {"while", "execute", "for"} => ENABLED PageNext
    /\ pPc = "done" =>
          /\ Len(batches) = (nIds + 49) \div 50
          /\ \A b \in 1..Len(batches) :
                /\ batches[b][2] - batches[b][1] >= 1
                /\ batches[b][2] - batches[b][1] <= 50
          /\ \A id \in 0..(nIds - 1) :
                Cardinality({b \in 1..Len(batches) :
                                batches[b][1] <= id /\ id < batches[b][2]}) = 1

\* 100 requests of one id each, then two full batches
C10_Witness ==
    /\ pPc = "done" /\ emptyPages = 0
    /\ max_total_results = 100 /\ searchRequests = 100 /\ nIds = 100
    /\ batches = <<<<0, 50>>, <<50, 100>>>>

(***************************************************************************)
(* get_youtube_data, the publish-time check of every metadata item.  Time  *)
(* is counted in hours; local time (JST) is UTC plus nine hours.  The      *)
(* platform may return items published at any time, whatever bounds the    *)
(* search request carried.                                                 *)
(***************************************************************************)
JstOffset == 9

\* utc_dt = jst_dt - timedelta(hours=9)
jst_to_utc(jst) == jst - JstOffset

\* datetime.strptime(published_at_utc, ...) + timedelta(hours=9)
ToJst(utc) == utc + JstOffset

\* a check that leaves out the upper boundary
InWindowHalfOpen(published_at_utc, lo, hi) ==
    lo <= ToJst(published_at_utc) /\ ToJst(published_at_utc) < hi

\* start_dt <= published_at_jst <= end_dt
InWindow(published_at_utc, lo, hi) ==
    lo <= ToJst(published_at_utc) /\ ToJst(published_at_utc) <= hi

WindowStarts == {11, 12, 13}
WindowEnds == {12, 13}
PublishTimes == 1..5

FilterInit ==
    /\ start_dt \in WindowStarts
    /\ end_dt \in WindowEnds
    /\ publishedAfter = 0
    /\ publishedBefore = 0
    /\ items = <<>>
    /\ video_data_kept = <<>>
    /\ fPc = "start"
    /\ DurIdle /\ MergeIdle /\ PageIdle /\ RunIdle

\* start_utc, end_utc = jst_to_utc(...); the search carries them as its bounds
FilterSearch ==
    /\ fPc = "start"
    /\ publishedAfter' = jst_to_utc(start_dt)
    /\ publishedBefore' = jst_to_utc(end_dt)
    /\ fPc' = "items"
    /\ UNCHANGED <<start_dt, end_dt, items, video_data_kept,
                   durVars, mergeVars, pageVars, runVars>>

\* for item in video_response['items']: skip it or append its record
FilterItem ==
    /\ fPc = "items"
    /\ Len(items) < MaxItems
    /\ \E published_at \in PublishTimes :
          /\ items' = Append(items, published_at)
          /\ video_data_kept' =
                IF ~InWindow(published_at, start_dt, end_dt)
                THEN video_data_kept
                ELSE Append(video_data_kept, published_at)
    /\ UNCHANGED <<start_dt, end_dt, publishedAfter, publishedBefore, fPc,
                   durVars, mergeVars, pageVars, runVars>>

\* return video_data
FilterReturn ==
    /\ fPc = "items"
    /\ fPc' = "returned"
    /\ UNCHANGED <<start_dt, end_dt, publishedAfter, publishedBefore, items,
                   video_data_kept, durVars, mergeVars, pageVars, runVars>>

FilterNext == FilterSearch \/ FilterItem \/ FilterReturn

FilterSpec == FilterInit /\ [][FilterNext]_vars

(***************************************************************************)
(* C4: every record get_youtube_data returns was published, in local time  *)
(* (UTC+9), inside the closed interval [windowStartLocal, windowEndLocal], *)
(* whatever the endpoints returned; and every item published inside that   *)
(* interval, boundaries included, is returned.                             *)
(***************************************************************************)
C4_ReturnedExactlyInWindow ==
    /\ \A i \in 1..Len(video_data_kept) :
          /\ start_dt <= video_data_kept[i] + 9
          /\ video_data_kept[i] + 9 <= end_dt
    /\ LET inside(t) == start_dt <= t + 9 /\ t + 9 <= end_dt
       IN  video_data_kept = SelectSeq(items, inside)

\* both boundaries kept, and an item from before the request's lower bound dropped
C4_Witness ==
    /\ fPc = "returned"
    /\ start_dt < end_dt
    /\ Len(items) = 3 /\ Len(video_data_kept) = 2
    /\ video_data_kept[1] + 9 = end_dt
    /\ video_data_kept[2] + 9 = start_dt
    /\ \E i \in 1..3 : items[i] < publishedAfter

(***************************************************************************)
(* main and export_to_google_sheet as processes: every run of the job is   *)
(* one process, and the destination spreadsheet is the state they share.   *)
(* A step is one call to the spreadsheet service, or one call of           *)
(* get_youtube_data (whose requests touch nothing the runs share).  Every  *)
(* call to a service may raise; nothing in main catches it, so the run     *)
(* ends there.  A run that has ended may be followed by a new run.         *)
(***************************************************************************)
DateKey == "20240101"

DefaultTitle == "Sheet1"

Sheet(title, header, data) == [title |-> title, header |-> header, data |-> data]

\* a listing that passes over the worksheets without a header row
TitlesOfFilledSheets(ss) == {ss[i].title : i \in {j \in 1..Len(ss) : ss[j].header}}

\* [ws.title for ws in sh.worksheets()]
WorksheetTitles(ss) == {ss[i].title : i \in 1..Len(ss)}

\* if sheet_name in existing_sheets: return
NeverSkip(name, existing) == "fetch"

AfterCheck(name, existing) == IF name \in existing THEN "skipped" ELSE "fetch"

\* sh.add_worksheet(title=...) as a set of possible results: the worksheets
\* afterwards, the place of the new worksheet (0: the call raised), the error.
\* For a title that is taken the service either rejects the request or keeps
\* both worksheets.
TitleTaken(ss, title) == \E i \in 1..Len(ss) : ss[i].title = title

Created(ss, title) ==
    [sheets |-> Append(ss, Sheet(title, FALSE, FALSE)), ws |-> Len(ss) + 1,
     err |-> "none"]

\* a get-or-create: the worksheet of that title is handed back when there is one
GetOrAddWorksheet(ss, title) ==
    IF TitleTaken(ss, title)
    THEN {[sheets |-> ss, err |-> "none",
           ws |-> CHOOSE i \in 1..Len(ss) : ss[i].title = title]}
    ELSE {Created(ss, title)}

add_worksheet(ss, title) ==
    IF TitleTaken(ss, title)
    THEN {[sheets |-> ss, ws |-> 0, err |-> "conflict"], Created(ss, title)}
    ELSE {Created(ss, title)}

\* requests one call of get_youtube_data issues: search pages, metadata batches
SearchCallsPerKeyword == {1, 2}
VideosCallsPerKeyword == {0, 1, 2}

Terminal == {"skipped", "done", "failed"}

RunInit ==
    /\ sheets \in {<<Sheet(DefaultTitle, FALSE, FALSE)>>,
                   <<Sheet(DefaultTitle, FALSE, FALSE), Sheet(DateKey, TRUE, TRUE)>>}
    /\ numKeywords \in 0..MaxKeywords
    /\ pc = [r \in Runs |-> "idle"]
    /\ sheet_name = [r \in Runs |-> ""]
    /\ existing_sheets = [r \in Runs |-> {}]
    /\ kwDone = [r \in Runs |-> 0]
    /\ searchCalls = [r \in Runs |-> 0]
    /\ videosCalls = [r \in Runs |-> 0]
    /\ sheetCalls = [r \in Runs |-> 0]
    /\ worksheet = [r \in Runs |-> 0]
    /\ err = [r \in Runs |-> "none"]
    /\ DurIdle /\ MergeIdle /\ PageIdle /\ FilterIdle

\* main starts: read_config, sheet_name = get_current_japan_digit_date()
Start(r) ==
    /\ pc[r] \in {"idle"} \cup Terminal
    /\ pc' = [pc EXCEPT ![r] = "check"]
    /\ sheet_name' = [sheet_name EXCEPT ![r] = DateKey]
    /\ existing_sheets' = [existing_sheets EXCEPT ![r] = {}]
    /\ kwDone' = [kwDone EXCEPT ![r] = 0]
    /\ searchCalls' = [searchCalls EXCEPT ![r] = 0]
    /\ videosCalls' = [videosCalls EXCEPT ![r] = 0]
    /\ sheetCalls' = [sheetCalls EXCEPT ![r] = 0]
    /\ worksheet' = [worksheet EXCEPT ![r] = 0]
    /\ err' = [err EXCEPT ![r] = "none"]
    /\ UNCHANGED <<sheets, numKeywords, durVars, mergeVars, pageVars, filterVars>>

\* a run starts only when no other run is under way
StartSerial(r) ==
    /\ \A q \in Runs \ {r} : pc[q] \in {"idle"} \cup Terminal
    /\ Start(r)

\* existing_sheets = [...]; if sheet_name in existing_sheets: return
CheckExists(r) ==
    /\ pc[r] = "check"
    /\ existing_sheets' = [existing_sheets EXCEPT ![r] = WorksheetTitles(sheets)]
    /\ pc' = [pc EXCEPT ![r] = AfterCheck(sheet_name[r], WorksheetTitles(sheets))]
    /\ UNCHANGED <<sheets, numKeywords, sheet_name, kwDone, searchCalls, videosCalls,
                   sheetCalls, worksheet, err, durVars, mergeVars, pageVars, filterVars>>

\* for keyword in keywords: get_youtube_data(...) returns
FetchKeyword(r) ==
    /\ pc[r] = "fetch"
    /\ kwDone[r] < numKeywords
    /\ \E s \in SearchCallsPerKeyword, v \in VideosCallsPerKeyword :
          /\ searchCalls' = [searchCalls EXCEPT ![r] = @ + s]
          /\ videosCalls' = [videosCalls EXCEPT ![r] = @ + v]
    /\ kwDone' = [kwDone EXCEPT ![r] = @ + 1]
    /\ UNCHANGED <<sheets, numKeywords, pc, sheet_name, existing_sheets, sheetCalls,
                   worksheet, err, durVars, mergeVars, pageVars, filterVars>>

\* get_youtube_data raises in one of its requests
FetchRaises(r) ==
    /\ pc[r] = "fetch"
    /\ kwDone[r] < numKeywords
    /\ \E s \in SearchCallsPerKeyword, v \in VideosCallsPerKeyword :
          /\ searchCalls' = [searchCalls EXCEPT ![r] = @ + s]
          /\ videosCalls' = [videosCalls EXCEPT ![r] = @ + v]
    /\ pc' = [pc EXCEPT ![r] = "failed"]
    /\ err' = [err EXCEPT ![r] = "api"]
    /\ UNCHANGED <<sheets, numKeywords, sheet_name, existing_sheets, kwDone,
                   sheetCalls, worksheet, durVars, mergeVars, pageVars, filterVars>>

\* the keyword loop is over: merge_and_deduplicate, sort, call the exporter
MergeAndSort(r) ==
    /\ pc[r] = "fetch"
    /\ kwDone[r] = numKeywords
    /\ pc' = [pc EXCEPT ![r] = "open"]
    /\ UNCHANGED <<sheets, numKeywords, sheet_name, existing_sheets, kwDone,
                   searchCalls, videosCalls, sheetCalls, worksheet, err,
                   durVars, mergeVars, pageVars, filterVars>>

\* export_to_google_sheet: sh = gc.open_by_key(spreadsheet_id)
OpenSpreadsheet(r) ==
    /\ pc[r] = "open"
    /\ pc' = [pc EXCEPT ![r] = "create"]
    /\ UNCHANGED <<sheets, numKeywords, sheet_name, existing_sheets, kwDone,
                   searchCalls, videosCalls, sheetCalls, worksheet, err,
                   durVars, mergeVars, pageVars, filterVars>>

\* worksheet = sh.add_worksheet(title=sheet_name, ...)
AddWorksheet(r) ==
    /\ pc[r] = "create"
    /\ sheetCalls' = [sheetCalls EXCEPT ![r] = @ + 1]
    /\ \E res \in add_worksheet(sheets, sheet_name[r]) :
          /\ sheets' = res.sheets
          /\ worksheet' = [worksheet EXCEPT ![r] = res.ws]
          /\ err' = [err EXCEPT ![r] = res.err]
          /\ pc' = [pc EXCEPT ![r] = IF res.err = "none" THEN "build" ELSE "failed"]
    /\ UNCHANGED <<numKeywords, sheet_name, existing_sheets, kwDone, searchCalls,
                   videosCalls, durVars, mergeVars, pageVars, filterVars>>

\* rows = []; for video in video_data: rows.append([...])
BuildRows(r) ==
    /\ pc[r] = "build"
    /\ pc' = [pc EXCEPT ![r] = "header"]
    /\ UNCHANGED <<sheets, numKeywords, sheet_name, existing_sheets, kwDone,
                   searchCalls, videosCalls, sheetCalls, worksheet, err,
                   durVars, mergeVars, pageVars, filterVars>>

\* worksheet.append_row(headers)
AppendHeader(r) ==
    /\ pc[r] = "header"
    /\ sheetCalls' = [sheetCalls EXCEPT ![r] = @ + 1]
    /\ sheets' = [sheets EXCEPT ![worksheet[r]].header = TRUE]
    /\ pc' = [pc EXCEPT ![r] = "data"]
    /\ UNCHANGED <<numKeywords, sheet_name, existing_sheets, kwDone, searchCalls,
                   videosCalls, worksheet, err, durVars, mergeVars, pageVars,
                   filterVars>>

\* worksheet.append_rows(rows, ...), then main prints and returns
AppendRows(r) ==
    /\ pc[r] = "data"
    /\ sheetCalls' = [sheetCalls EXCEPT ![r] = @ + 1]
    /\ sheets' = [sheets EXCEPT ![worksheet[r]].data = TRUE]
    /\ pc' = [pc EXCEPT ![r] = "done"]
    /\ UNCHANGED <<numKeywords, sheet_name, existing_sheets, kwDone, searchCalls,
                   videosCalls, worksheet, err, durVars, mergeVars, pageVars,
                   filterVars>>

\* a read of the spreadsheet raises: open_by_key or worksheets()
ReadRaises(r) ==
    /\ pc[r] \in {"check", "open"}
    /\ pc' = [pc EXCEPT ![r] = "failed"]
    /\ err' = [err EXCEPT ![r] = "api"]
    /\ UNCHANGED <<sheets, numKeywords, sheet_name, existing_sheets, kwDone,
                   searchCalls, videosCalls, sheetCalls, worksheet,
                   durVars, mergeVars, pageVars, filterVars>>

\* a write to the spreadsheet raises and changes nothing: add_worksheet,
\* append_row or append_rows
WriteRaises(r) ==
    /\ pc[r] \in {"create", "header", "data"}
    /\ sheetCalls' = [sheetCalls EXCEPT ![r] = @ + 1]
    /\ pc' = [pc EXCEPT ![r] = "failed"]
    /\ err' = [err EXCEPT ![r] = "api"]
    /\ UNCHANGED <<sheets, numKeywords, sheet_name, existing_sheets, kwDone,
                   searchCalls, videosCalls, worksheet,
                   durVars, mergeVars, pageVars, filterVars>>

\* building a row raises (timedelta overflows on a huge duration)
BuildRowsRaises(r) ==
    /\ pc[r] = "build"
    /\ pc' = [pc EXCEPT ![r] = "failed"]
    /\ err' = [err EXCEPT ![r] = "api"]
    /\ UNCHANGED <<sheets, numKeywords, sheet_name, existing_sheets, kwDone,
                   searchCalls, videosCalls, sheetCalls, worksheet,
                   durVars, mergeVars, pageVars, filterVars>>

\* one step of run r after it has started
Step(r) ==
    \/ CheckExists(r)
    \/ FetchKeyword(r)
    \/ FetchRaises(r)
    \/ MergeAndSort(r)
    \/ OpenSpreadsheet(r)
    \/ AddWorksheet(r)
    \/ BuildRows(r)
    \/ AppendHeader(r)
    \/ AppendRows(r)
    \/ ReadRaises(r)
    \/ WriteRaises(r)
    \/ BuildRowsRaises(r)

\* runs may overlap
Next == \E r \in Runs : Start(r) \/ Step(r)

Spec == RunInit /\ [][Next]_vars

\* runs are invoked one after the other
SerialNext == \E r \in Runs : StartSerial(r) \/ Step(r)

SerialSpec == RunInit /\ [][SerialNext]_vars

\* the places in the spreadsheet of the worksheets with this title
Titled(name) == {i \in 1..Len(sheets) : sheets[i].title = name}

(***************************************************************************)
(* C1: a run whose existence check finds a worksheet titled with today's   *)
(* date key issues no search.list, no videos.list, no add_worksheet, no    *)
(* append_row and no append_rows, and returns normally.                    *)
(***************************************************************************)
C1_SkipsWhenSheetExists ==
    /\ [](\A r \in Runs :
            sheet_name[r] \in existing_sheets[r] =>
                /\ pc[r] = "skipped"
                /\ searchCalls[r] = 0 /\ videosCalls[r] = 0 /\ sheetCalls[r] = 0
                /\ worksheet[r] = 0 /\ err[r] = "none")
    /\ [][\A r \in Runs :
            (pc[r] = "check" /\ pc'[r] \notin {"check", "failed"}
                             /\ Titled(sheet_name[r]) # {})
                => /\ pc'[r] = "skipped"
                   /\ sheets' = sheets
                   /\ searchCalls'[r] = 0 /\ videosCalls'[r] = 0
                   /\ sheetCalls'[r] = 0]_vars

\* run 1 skipped on a worksheet that run 2 created and is still filling
C1_Witness ==
    /\ pc[1] = "skipped" /\ pc[2] = "header"
    /\ sheet_name[1] \in existing_sheets[1]
    /\ searchCalls[1] = 0 /\ sheetCalls[1] = 0

(***************************************************************************)
(* C2: a run has no partial-failure mode: whenever it ends, either it      *)
(* created no worksheet, or its worksheet holds the header row and the     *)
(* data rows.                                                              *)
(***************************************************************************)
C2_NoPartialFailure ==
    \A r \in Runs :
        pc[r] \in Terminal =>
            \/ worksheet[r] = 0
            \/ sheets[worksheet[r]].header /\ sheets[worksheet[r]].data

(***************************************************************************)
(* C3: nothing keeps a run from passing the existence check while another  *)
(* run for the same date key is between its own check and its creation of  *)
(* the worksheet; both then issue their search requests and both ask for a *)
(* worksheet of the same title, which ends in two worksheets of that title *)
(* or in a conflict.                                                       *)
(***************************************************************************)
C3_CheckThenCreateRaces ==
    \A r, q \in Runs :
        r # q /\ sheet_name[r] = sheet_name[q] =>
            /\ (pc[r] = "check" /\ pc[q] \in {"fetch", "open", "create"}
                                /\ Titled(sheet_name[q]) = {})
                  => ENABLED (CheckExists(r) /\ pc'[r] = "fetch")
            /\ pc[r] \in {"open", "create", "build", "header", "data", "done"}
                  => searchCalls[r] >= numKeywords
            /\ (/\ sheetCalls[r] >= 1 /\ sheetCalls[q] >= 1
                /\ ~(err[r] = "api" /\ worksheet[r] = 0)
                /\ ~(err[q] = "api" /\ worksheet[q] = 0))
                  => \/ err[r] = "conflict"
                     \/ err[q] = "conflict"
                     \/ /\ worksheet[r] # 0 /\ worksheet[q] # 0
                        /\ worksheet[r] # worksheet[q]
                        /\ sheets[worksheet[r]].title = sheets[worksheet[q]].title

\* both runs passed the check, both searched, both asked for the worksheet
C3_Witness ==
    /\ sheet_name[1] = sheet_name[2]
    /\ sheet_name[1] \notin existing_sheets[1]
    /\ sheet_name[2] \notin existing_sheets[2]
    /\ searchCalls[1] >= 1 /\ searchCalls[2] >= 1
    /\ sheetCalls[1] >= 1 /\ sheetCalls[2] >= 1
    /\ worksheet[1] # 0
    /\ err[2] = "conflict" \/ (worksheet[2] # 0 /\ worksheet[2] # worksheet[1])

(***************************************************************************)
(* C9: when runs for one date key do not overlap, a run that is past its   *)
(* existence check and did not skip meets no worksheet of that title but   *)
(* its own: once a worksheet was created, filled or not, every later run   *)
(* skips; so at most one worksheet of the title is ever created.           *)
(***************************************************************************)
C9_SerialRunsCreateOnce ==
    /\ Cardinality(Titled(DateKey)) <= 1
    /\ \A r \in Runs :
          pc[r] \in {"fetch", "open", "create", "build", "header", "data", "done"}
              => Titled(sheet_name[r]) \subseteq {worksheet[r]}
    /\ \A r \in Runs :
          (pc[r] = "skipped") =>
              /\ Titled(sheet_name[r]) # {}
              /\ searchCalls[r] = 0 /\ videosCalls[r] = 0 /\ sheetCalls[r] = 0

\* run 1 created the worksheet and failed before the header; run 2 then skipped
C9_Witness ==
    /\ pc[1] = "failed" /\ worksheet[1] # 0
    /\ ~sheets[worksheet[1]].header
    /\ pc[2] = "skipped"

=============================================================================
